---- MODULE Spec2Model ----
(***************************************************************************)
(* Braket cost notebook: get_price_list (price catalog from the AWS Price  *)
(* List service), get_price (device ARN -> task/shot price) and            *)
(* estimate_cost (tasks*price_per_task + tasks*shots*price_per_shot, then  *)
(* the printed report).                                                    *)
(*                                                                         *)
(* Strings are sequences of one-character strings, so that slicing         *)
(* (value[-4:]) and substring containment ('ionq' in arn) are computed.    *)
(* Prices are fixed-point: an integer number of 10^-FracDigits USD; the    *)
(* binary rounding of Python floats is not modelled.                       *)
(***************************************************************************)
EXTENDS Integers, Sequences, FiniteSets, TLC

\* ------------------------------------------------------------------------
\* Bounds of the model
\* ------------------------------------------------------------------------
\* decimal digits kept after the point by the fixed-point price
FracDigits == 5
\* price republications of the service during one estimate_cost call
MaxChanges == 1
\* pages / items per page of the listings enumerated for get_price_list
MaxAttrPages == 2
MaxAttrPageLen == 1
MaxProdPages == 2
MaxProdPageLen == 1

\* ------------------------------------------------------------------------
\* String literals of the notebook, as character sequences
\* ------------------------------------------------------------------------
SIMULATOR ==
    <<"s","i","m","u","l","a","t","o","r">>
IONQ ==
    <<"i","o","n","q">>
RIGETTI ==
    <<"r","i","g","e","t","t","i">>
D_WAVE ==
    <<"d","-","w","a","v","e">>
Task ==
    <<"T","a","s","k">>
Shot ==
    <<"S","h","o","t">>
Global_Simulators_Task ==
    <<"G","l","o","b","a","l","-","S","i","m","u","l","a","t","o","r","s","-","T","a","s","k">>
USE1_Task ==
    <<"U","S","E","1","-","T","a","s","k">>
USE1_Task_Shot ==
    <<"U","S","E","1","-","T","a","s","k","-","S","h","o","t">>
USW1_Task ==
    <<"U","S","W","1","-","T","a","s","k">>
USW1_Task_Shot ==
    <<"U","S","W","1","-","T","a","s","k","-","S","h","o","t">>
USW2_Task ==
    <<"U","S","W","2","-","T","a","s","k">>
USW2_Task_Shot ==
    <<"U","S","W","2","-","T","a","s","k","-","S","h","o","t">>
USE1_Notebook ==
    <<"U","S","E","1","-","N","o","t","e","b","o","o","k">>
USE1_Tasks ==
    <<"U","S","E","1","-","T","a","s","k","s">>
ask ==
    <<"a","s","k">>
ARN_SV1 ==
    <<"a","r","n",":","a","w","s",":","b","r","a","k","e","t",":",":",":","d","e","v","i","c","e","/","q","u","a","n","t","u","m","-","s","i","m","u","l","a","t","o","r","/","a","m","a","z","o","n","/","s","v","1">>
ARN_IONQ ==
    <<"a","r","n",":","a","w","s",":","b","r","a","k","e","t",":",":",":","d","e","v","i","c","e","/","q","p","u","/","i","o","n","q","/","i","o","n","Q","d","e","v","i","c","e">>
ARN_RIGETTI ==
    <<"a","r","n",":","a","w","s",":","b","r","a","k","e","t",":",":",":","d","e","v","i","c","e","/","q","p","u","/","r","i","g","e","t","t","i","/","A","s","p","e","n","-","9">>
ARN_DWAVE ==
    <<"a","r","n",":","a","w","s",":","b","r","a","k","e","t",":",":",":","d","e","v","i","c","e","/","q","p","u","/","d","-","w","a","v","e","/","D","W","_","2","0","0","0","Q","_","6">>
ARN_OQC ==
    <<"a","r","n",":","a","w","s",":","b","r","a","k","e","t",":",":",":","d","e","v","i","c","e","/","q","p","u","/","o","q","c","/","L","u","c","y">>
ARN_SIM_IONQ ==
    <<"a","r","n",":","a","w","s",":","b","r","a","k","e","t",":",":",":","d","e","v","i","c","e","/","q","u","a","n","t","u","m","-","s","i","m","u","l","a","t","o","r","/","i","o","n","q","/","e","m","u","l","a","t","o","r">>
ARN_RIGETTI_DWAVE ==
    <<"a","r","n",":","a","w","s",":","b","r","a","k","e","t",":",":",":","d","e","v","i","c","e","/","q","p","u","/","r","i","g","e","t","t","i","/","d","-","w","a","v","e","-","b","r","i","d","g","e">>
ARN_DWAVE_IONQ ==
    <<"a","r","n",":","a","w","s",":","b","r","a","k","e","t",":",":",":","d","e","v","i","c","e","/","q","p","u","/","d","-","w","a","v","e","/","i","o","n","q","-","l","i","n","k">>
USD_0_3 ==
    <<"0",".","3","0","0","0","0","0","0","0","0","0">>
USD_0_01 ==
    <<"0",".","0","1","0","0","0","0","0","0","0","0">>
USD_0_00035 ==
    <<"0",".","0","0","0","3","5","0","0","0","0","0">>
USD_0_00019 ==
    <<"0",".","0","0","0","1","9","0","0","0","0","0">>
USD_0_0 ==
    <<"0",".","0","0","0","0","0","0","0","0","0","0">>

\* ------------------------------------------------------------------------
\* Python primitives used by the notebook
\* ------------------------------------------------------------------------
\* s[-4:]: the last four characters, or all of s when it is shorter
slice_last4(s) ==
    IF Len(s) <= 4 THEN s ELSE SubSeq(s, Len(s) - 3, Len(s))

\* t in s, for strings: t occurs as a contiguous substring of s
str_in(t, s) ==
    \E i \in 1..(Len(s) - Len(t) + 1) : SubSeq(s, i, i + Len(t) - 1) = t

\* x in l, for lists
list_in(x, l) ==
    \E i \in 1..Len(l) : l[i] = x

\* {}: the empty dictionary
EmptyDict ==
    [k \in {} |-> 0]

\* d[k] = v
dict_setitem(d, k, v) ==
    [x \in (DOMAIN d) \cup {k} |-> IF x = k THEN v ELSE d[x]]

DecimalDigits ==
    <<"0","1","2","3","4","5","6","7","8","9">>

DigitVal(c) ==
    (CHOOSE i \in 1..10 : DecimalDigits[i] = c) - 1

RECURSIVE Pow10(_)
Pow10(n) ==
    IF n = 0 THEN 1 ELSE 10 * Pow10(n - 1)

RECURSIVE DigitsToNat(_)
DigitsToNat(ds) ==
    IF ds = <<>> THEN 0
    ELSE 10 * DigitsToNat(SubSeq(ds, 1, Len(ds) - 1)) + DigitVal(ds[Len(ds)])

\* float(s) of a decimal string "i.ffff...": the value in units of
\* 10^-FracDigits USD (digits beyond FracDigits are dropped)
float(s) ==
    LET dot  == CHOOSE i \in 1..Len(s) : s[i] = "."
        ip   == SubSeq(s, 1, dot - 1)
        fr   == SubSeq(s, dot + 1, Len(s))
        frK  == [i \in 1..FracDigits |-> IF i <= Len(fr) THEN fr[i] ELSE "0"]
    IN  DigitsToNat(ip) * Pow10(FracDigits) + DigitsToNat(frK)

\* ------------------------------------------------------------------------
\* get_price_list
\* ------------------------------------------------------------------------
\* mutant: substring test instead of the suffix test
ends_task_or_shot_contains(value) ==
    str_in(Task, value) \/ str_in(Shot, value)

\* i['Value'][-4:] == 'Task' or i['Value'][-4:] == 'Shot'
ends_task_or_shot(value) ==
    slice_last4(value) = Task \/ slice_last4(value) = Shot

\* for i in item['AttributeValues']: ... tasks.append(i['Value'])
RECURSIVE attribute_values_loop(_, _)
attribute_values_loop(values, tasks_list) ==
    IF values = <<>> THEN tasks_list
    ELSE attribute_values_loop(Tail(values),
            IF ends_task_or_shot(Head(values))
            THEN Append(tasks_list, Head(values))
            ELSE tasks_list)

\* for item in response_iterator (get_attribute_values pages)
RECURSIVE attribute_pages_loop(_, _)
attribute_pages_loop(pages, tasks_list) ==
    IF pages = <<>> THEN tasks_list
    ELSE attribute_pages_loop(Tail(pages),
            attribute_values_loop(Head(pages), tasks_list))

\* for j in ondemand_terms[terms_id]['priceDimensions']:
\*     price_list[usage_type] = float(...[j]['pricePerUnit']['USD'])
RECURSIVE price_dimensions_loop(_, _, _)
price_dimensions_loop(dims, usage_type, pl) ==
    IF dims = <<>> THEN pl
    ELSE price_dimensions_loop(Tail(dims), usage_type,
            dict_setitem(pl, usage_type, float(Head(dims))))

\* for terms_id in ondemand_terms
RECURSIVE ondemand_terms_loop(_, _, _)
ondemand_terms_loop(terms, usage_type, pl) ==
    IF terms = <<>> THEN pl
    ELSE ondemand_terms_loop(Tail(terms), usage_type,
            price_dimensions_loop(Head(terms), usage_type, pl))

\* for i in responses['PriceList']: if usage_type in tasks: ...
RECURSIVE price_list_page_loop(_, _, _)
price_list_page_loop(records, tasks_list, pl) ==
    IF records = <<>> THEN pl
    ELSE price_list_page_loop(Tail(records), tasks_list,
            IF list_in(Head(records).usagetype, tasks_list)
            THEN ondemand_terms_loop(Head(records).OnDemand,
                                     Head(records).usagetype, pl)
            ELSE pl)

\* for responses in response_iterator (get_products pages)
RECURSIVE product_pages_loop(_, _, _)
product_pages_loop(pages, tasks_list, pl) ==
    IF pages = <<>> THEN pl
    ELSE product_pages_loop(Tail(pages), tasks_list,
            price_list_page_loop(Head(pages), tasks_list, pl))

\* the catalog built from the attribute pages and the product pages the
\* two paginators deliver
get_price_list(attrPages, prodPages) ==
    product_pages_loop(prodPages,
                       attribute_pages_loop(attrPages, <<>>),
                       EmptyDict)

\* ------------------------------------------------------------------------
\* get_price
\* ------------------------------------------------------------------------
\* mutant: a missing key reads as price 0 (dict.get(key, 0))
dict_getitem_default0(d, k) ==
    [exc |-> "none", val |-> IF k \in DOMAIN d THEN d[k] ELSE 0]

\* d[k]: the value, or KeyError when k is not a key of d
dict_getitem(d, k) ==
    IF k \in DOMAIN d THEN [exc |-> "none", val |-> d[k]]
    ELSE [exc |-> "KeyError", val |-> 0]

\* the frame of get_price before the first if: no local price is bound
NoLocals ==
    [exc |-> "none", locals |-> [n \in {} |-> 0]]

\* name = price_list[key]; skipped once an exception is propagating
assign_price(env, name, pl, key) ==
    IF env.exc # "none" THEN env
    ELSE LET r == dict_getitem(pl, key)
         IN  IF r.exc # "none" THEN [env EXCEPT !.exc = r.exc]
             ELSE [env EXCEPT !.locals = dict_setitem(@, name, r.val)]

\* if 'simulator' in arn: price_per_task = price_list['Global-Simulators-Task']
if_simulator(env, arn, pl) ==
    IF env.exc = "none" /\ str_in(SIMULATOR, arn)
    THEN assign_price(env, "price_per_task", pl, Global_Simulators_Task)
    ELSE env

\* if 'ionq' in arn: USE1-Task, USE1-Task-Shot
if_ionq(env, arn, pl) ==
    IF env.exc = "none" /\ str_in(IONQ, arn)
    THEN assign_price(assign_price(env, "price_per_task", pl, USE1_Task),
                      "price_per_shot", pl, USE1_Task_Shot)
    ELSE env

\* mutant: the rigetti branch reads the USW2 row
if_rigetti_usw2(env, arn, pl) ==
    IF env.exc = "none" /\ str_in(RIGETTI, arn)
    THEN assign_price(assign_price(env, "price_per_task", pl, USW2_Task),
                      "price_per_shot", pl, USW2_Task_Shot)
    ELSE env

\* if 'rigetti' in arn: USW1-Task, USW1-Task-Shot
if_rigetti(env, arn, pl) ==
    IF env.exc = "none" /\ str_in(RIGETTI, arn)
    THEN assign_price(assign_price(env, "price_per_task", pl, USW1_Task),
                      "price_per_shot", pl, USW1_Task_Shot)
    ELSE env

\* if 'd-wave' in arn: USW2-Task, USW2-Task-Shot
if_d_wave(env, arn, pl) ==
    IF env.exc = "none" /\ str_in(D_WAVE, arn)
    THEN assign_price(assign_price(env, "price_per_task", pl, USW2_Task),
                      "price_per_shot", pl, USW2_Task_Shot)
    ELSE env

\* mutant: an unbound local is returned as price 0
return_dict_default0(env) ==
    IF env.exc # "none" THEN [exc |-> env.exc, ret |-> <<>>]
    ELSE [exc |-> "none",
          ret |-> << [task |-> IF "price_per_task" \in DOMAIN env.locals
                               THEN env.locals["price_per_task"] ELSE 0,
                      shot |-> IF "price_per_shot" \in DOMAIN env.locals
                               THEN env.locals["price_per_shot"] ELSE 0] >>]

\* return {'task': price_per_task, 'shot': price_per_shot}: reading a local
\* that no branch assigned raises UnboundLocalError
return_dict(env) ==
    IF env.exc # "none" THEN [exc |-> env.exc, ret |-> <<>>]
    ELSE IF ~ ({"price_per_task", "price_per_shot"} \subseteq DOMAIN env.locals)
    THEN [exc |-> "UnboundLocalError", ret |-> <<>>]
    ELSE [exc |-> "none",
          ret |-> << [task |-> env.locals["price_per_task"],
                      shot |-> env.locals["price_per_shot"]] >>]

\* mutant: an if/elif chain, the first matching branch wins
get_price_elif(arn, pl) ==
    return_dict(
        IF str_in(SIMULATOR, arn) THEN if_simulator(NoLocals, arn, pl)
        ELSE IF str_in(IONQ, arn) THEN if_ionq(NoLocals, arn, pl)
        ELSE IF str_in(RIGETTI, arn) THEN if_rigetti(NoLocals, arn, pl)
        ELSE if_d_wave(NoLocals, arn, pl))

\* get_price after price_list = get_price_list(): the four independent ifs
\* in source order, then the return.  Result: the exception raised ("none"
\* if none) and the returned dictionary (<<>> if none was returned).
get_price(arn, pl) ==
    return_dict(
        if_d_wave(
            if_rigetti(
                if_ionq(
                    if_simulator(NoLocals, arn, pl),
                    arn, pl),
                arn, pl),
            arn, pl))

\* ------------------------------------------------------------------------
\* estimate_cost
\* ------------------------------------------------------------------------
\* mutant: the shot term loses its factor tasks
price_formula_shots_once(t, s, pt, ps) ==
    t * pt + s * ps

\* price = tasks * price_per_task + tasks * shots_per_task * price_per_shot
price_formula(t, s, pt, ps) ==
    t * pt + t * s * ps

\* the eight print statements, in order: format string and argument
report_lines(name, t, s, pt, ps, p) ==
    << <<"--------------------------------------------------------", "">>,
       <<"AWS Device:       {}", name>>,
       <<"Number of tasks:  {}", t>>,
       <<"Shots per task:   {}", s>>,
       <<"Price per task:   ${}", pt>>,
       <<"Price per shot:   ${}\n", ps>>,
       <<"Cost estimate:    ${}", p>>,
       <<"--------------------------------------------------------\n\n", "">> >>

\* ------------------------------------------------------------------------
\* The pricing service and the inputs of one estimate_cost call
\* ------------------------------------------------------------------------
\* a product of get_products after json.loads: its usagetype attribute and
\* terms.OnDemand as the sequence of its terms, each the sequence of the
\* pricePerUnit.USD strings of its priceDimensions
Product(usage_type, usd) ==
    [usagetype |-> usage_type, OnDemand |-> << <<usd>> >>]

\* usage types of the service, with the prices of the get_price_list
\* docstring; USE1-Notebook stands for the usage types that are neither
\* task nor shot
BraketProducts ==
    << Product(Global_Simulators_Task, USD_0_0),
       Product(USE1_Notebook, USD_0_01),
       Product(USE1_Task, USD_0_3),
       Product(USE1_Task_Shot, USD_0_01),
       Product(USW1_Task, USD_0_3),
       Product(USW1_Task_Shot, USD_0_00035),
       Product(USW2_Task, USD_0_3),
       Product(USW2_Task_Shot, USD_0_00019) >>

\* the pages a paginator delivers for a listing, n items per page
RECURSIVE Paginate(_, _)
Paginate(items, n) ==
    IF items = <<>> THEN <<>>
    ELSE IF Len(items) <= n THEN <<items>>
    ELSE <<SubSeq(items, 1, n)>> \o Paginate(SubSeq(items, n + 1, Len(items)), n)

\* the service's listings when it offers every product but the one at
\* index omitted (0: none omitted)
OfferedProducts(omitted) ==
    SelectSeq([i \in 1..Len(BraketProducts) |->
                  [idx |-> i, rec |-> BraketProducts[i]]],
              LAMBDA x : x.idx # omitted)

AttributePagesOf(omitted) ==
    LET off == OfferedProducts(omitted)
    IN  Paginate([i \in 1..Len(off) |-> off[i].rec.usagetype], 3)

ProductPagesOf(omitted) ==
    LET off == OfferedProducts(omitted)
    IN  Paginate([i \in 1..Len(off) |-> off[i].rec], 3)

\* the AwsDevice objects passed as device: _arn and name
Devices ==
    { [arn |-> ARN_SV1,           name |-> "SV1"],
      [arn |-> ARN_IONQ,          name |-> "IonQ Device"],
      [arn |-> ARN_RIGETTI,       name |-> "Aspen-9"],
      [arn |-> ARN_DWAVE,         name |-> "DW_2000Q_6"],
      [arn |-> ARN_OQC,           name |-> "Lucy"],
      [arn |-> ARN_SIM_IONQ,      name |-> "emulator"],
      [arn |-> ARN_RIGETTI_DWAVE, name |-> "d-wave-bridge"],
      [arn |-> ARN_DWAVE_IONQ,    name |-> "ionq-link"] }

\* values passed as tasks and as shots_per_task
TaskCounts ==
    {-1, 0, 10}

ShotCounts ==
    {-1, 0, 10000}

\* task key and shot key of the rows the service may republish
PriceRows ==
    { [task |-> Global_Simulators_Task, shot |-> <<>>],
      [task |-> USE1_Task, shot |-> USE1_Task_Shot],
      [task |-> USW1_Task, shot |-> USW1_Task_Shot],
      [task |-> USW2_Task, shot |-> USW2_Task_Shot] }

\* (task price, shot price) pairs a republication may set for a row
NewPrices ==
    { <<USD_0_01, USD_0_00019>>, <<USD_0_00019, USD_0_01>> }

VARIABLES
    device,          \* estimate_cost argument: [arn, name]
    tasks,           \* estimate_cost argument
    shots_per_task,  \* estimate_cost argument
    svcAttrs,        \* service: pages of get_attribute_values
    svcProducts,     \* service: pages of get_products
    changes,         \* republications of the service so far
    pc,              \* position in estimate_cost / get_price_list
    fetched,         \* catalogs returned by get_price_list, in order
    calls,           \* get_price calls: [price_list, exc, ret], in order
    price_per_task,  \* estimate_cost local (bound from line 236 on)
    price_per_shot,  \* estimate_cost local (bound from line 237 on)
    price,           \* estimate_cost local (bound from line 242 on)
    output,          \* lines printed so far
    exc              \* exception that left estimate_cost, "none" if none

vars ==
    <<device, tasks, shots_per_task, svcAttrs, svcProducts, changes, pc,
      fetched, calls, price_per_task, price_per_shot, price, output, exc>>

Init ==
    /\ device \in Devices
    /\ tasks \in TaskCounts
    /\ shots_per_task \in ShotCounts
    /\ \E omitted \in 0..Len(BraketProducts) :
          /\ svcAttrs = AttributePagesOf(omitted)
          /\ svcProducts = ProductPagesOf(omitted)
    /\ changes = 0
    /\ pc = "line236"
    /\ fetched = <<>>
    /\ calls = <<>>
    /\ price_per_task = 0
    /\ price_per_shot = 0
    /\ price = 0
    /\ output = <<>>
    /\ exc = "none"

\* the service publishes new prices for one row between the two catalog
\* fetches of the call (a republication before the first fetch is another
\* initial listing, one after the second fetch is never read)
ServiceRepublishes ==
    /\ pc = "line237"
    /\ changes < MaxChanges
    /\ \E row \in PriceRows, new \in NewPrices :
          svcProducts' =
              [p \in DOMAIN svcProducts |->
                  [i \in DOMAIN svcProducts[p] |->
                      LET rec == svcProducts[p][i]
                      IN  IF rec.usagetype = row.task
                          THEN Product(rec.usagetype, new[1])
                          ELSE IF rec.usagetype = row.shot
                          THEN Product(rec.usagetype, new[2])
                          ELSE rec]]
    /\ svcProducts' # svcProducts
    /\ changes' = changes + 1
    /\ UNCHANGED <<device, tasks, shots_per_task, svcAttrs, pc, fetched,
                   calls, price_per_task, price_per_shot, price, output, exc>>

\* mutant: the failure is logged to the output
output_on_raise_logged(out) ==
    Append(out, <<"error", "">>)

\* an exception raised by get_price leaves estimate_cost at once: no print
\* statement runs
output_on_raise(out) ==
    out

\* get_price(device) whose boto3 call fails: the client error propagates
GetPriceFetchFails ==
    /\ calls' = Append(calls, [price_list |-> EmptyDict,
                               exc |-> "ClientError", ret |-> <<>>])
    /\ pc' = "raised"
    /\ exc' = "ClientError"
    /\ output' = output_on_raise(output)
    /\ UNCHANGED <<device, tasks, shots_per_task, svcAttrs, svcProducts,
                   changes, fetched, price_per_task, price_per_shot, price>>

\* price_per_task = get_price(device)['task']
EstimateTaskPrice ==
    /\ pc = "line236"
    /\ \/ GetPriceFetchFails
       \/ LET pl == get_price_list(svcAttrs, svcProducts)
              r  == get_price(device.arn, pl)
          IN  /\ fetched' = Append(fetched, pl)
              /\ calls' = Append(calls, [price_list |-> pl,
                                         exc |-> r.exc, ret |-> r.ret])
              /\ IF r.exc # "none"
                 THEN /\ pc' = "raised"
                      /\ exc' = r.exc
                      /\ output' = output_on_raise(output)
                      /\ UNCHANGED price_per_task
                 ELSE /\ pc' = "line237"
                      /\ price_per_task' = r.ret[1].task
                      /\ UNCHANGED <<exc, output>>
              /\ UNCHANGED <<device, tasks, shots_per_task, svcAttrs,
                             svcProducts, changes, price_per_shot, price>>

\* price_per_shot = get_price(device)['shot']
EstimateShotPrice ==
    /\ pc = "line237"
    /\ \/ GetPriceFetchFails
       \/ LET pl == get_price_list(svcAttrs, svcProducts)
              r  == get_price(device.arn, pl)
          IN  /\ fetched' = Append(fetched, pl)
              /\ calls' = Append(calls, [price_list |-> pl,
                                         exc |-> r.exc, ret |-> r.ret])
              /\ IF r.exc # "none"
                 THEN /\ pc' = "raised"
                      /\ exc' = r.exc
                      /\ output' = output_on_raise(output)
                      /\ UNCHANGED price_per_shot
                 ELSE /\ pc' = "line242"
                      /\ price_per_shot' = r.ret[1].shot
                      /\ UNCHANGED <<exc, output>>
              /\ UNCHANGED <<device, tasks, shots_per_task, svcAttrs,
                             svcProducts, changes, price_per_task, price>>

\* price = tasks * price_per_task + tasks * shots_per_task * price_per_shot
EstimateTotal ==
    /\ pc = "line242"
    /\ price' = price_formula(tasks, shots_per_task,
                              price_per_task, price_per_shot)
    /\ pc' = "line244"
    /\ UNCHANGED <<device, tasks, shots_per_task, svcAttrs, svcProducts,
                   changes, fetched, calls, price_per_task, price_per_shot,
                   output, exc>>

\* the next print statement of the report; after the last one the call
\* returns
EstimateReport ==
    /\ pc = "line244"
    /\ LET lines == report_lines(device.name, tasks, shots_per_task,
                                 price_per_task, price_per_shot, price)
       IN  /\ output' = Append(output, lines[Len(output) + 1])
           /\ pc' = IF Len(output) + 1 = Len(lines) THEN "done" ELSE "line244"
    /\ UNCHANGED <<device, tasks, shots_per_task, svcAttrs, svcProducts,
                   changes, fetched, calls, price_per_task, price_per_shot,
                   price, exc>>

Next ==
    \/ ServiceRepublishes
    \/ EstimateTaskPrice
    \/ EstimateShotPrice
    \/ EstimateTotal
    \/ EstimateReport

Spec ==
    Init /\ [][Next]_vars

\* ------------------------------------------------------------------------
\* get_price_list on arbitrary listings
\* ------------------------------------------------------------------------
\* sequences over S of length at most n
BoundedSeq(S, n) ==
    UNION { [1..k -> S] : k \in 0..n }

\* attribute values a get_attribute_values page may carry
AttrValues ==
    {USE1_Task, USE1_Task_Shot, USE1_Tasks, Task, ask}

\* products a get_products page may carry: one term, several terms and
\* price dimensions, no term, and usage types the filter rejects
FetchProducts ==
    { [usagetype |-> USE1_Task, OnDemand |-> << <<USD_0_3>> >>],
      [usagetype |-> USE1_Task,
       OnDemand |-> << <<USD_0_01, USD_0_00019>>, <<USD_0_00035>> >>],
      [usagetype |-> USE1_Task, OnDemand |-> <<>>],
      [usagetype |-> USE1_Task_Shot, OnDemand |-> << <<USD_0_01>> >>],
      [usagetype |-> USE1_Tasks, OnDemand |-> << <<USD_0_3>> >>],
      [usagetype |-> ask, OnDemand |-> << <<USD_0_00019>> >>] }

InitFetch ==
    /\ svcAttrs \in BoundedSeq(BoundedSeq(AttrValues, MaxAttrPageLen),
                               MaxAttrPages)
    /\ svcProducts \in BoundedSeq(BoundedSeq(FetchProducts, MaxProdPageLen),
                                  MaxProdPages)
    /\ device = [arn |-> ARN_DWAVE, name |-> "DW_2000Q_6"]
    /\ tasks = 1
    /\ shots_per_task = 1000
    /\ changes = 0
    /\ pc = "get_price_list"
    /\ fetched = <<>>
    /\ calls = <<>>
    /\ price_per_task = 0
    /\ price_per_shot = 0
    /\ price = 0
    /\ output = <<>>
    /\ exc = "none"

\* one call of get_price_list()
GetPriceList ==
    /\ pc = "get_price_list"
    /\ fetched' = Append(fetched, get_price_list(svcAttrs, svcProducts))
    /\ pc' = "returned"
    /\ UNCHANGED <<device, tasks, shots_per_task, svcAttrs, svcProducts,
                   changes, calls, price_per_task, price_per_shot, price,
                   output, exc>>

NextFetch ==
    GetPriceList

SpecFetch ==
    InitFetch /\ [][NextFetch]_vars

\* ------------------------------------------------------------------------
\* Vocabulary of the properties
\* ------------------------------------------------------------------------
\* the matching rules in source order: token, task key, shot key
Rules ==
    << [token |-> SIMULATOR, keys |-> <<Global_Simulators_Task>>],
       [token |-> IONQ,      keys |-> <<USE1_Task, USE1_Task_Shot>>],
       [token |-> RIGETTI,   keys |-> <<USW1_Task, USW1_Task_Shot>>],
       [token |-> D_WAVE,    keys |-> <<USW2_Task, USW2_Task_Shot>>] >>

\* indices of the rules whose token occurs in the device identifier
Matching ==
    { i \in 1..4 : str_in(Rules[i].token, device.arn) }

LastMatching ==
    CHOOSE i \in Matching : \A j \in Matching : j <= i

KeysOf(i) ==
    { Rules[i].keys[n] : n \in 1..Len(Rules[i].keys) }

\* get_price calls that got a catalog from get_price_list
Resolved ==
    { i \in 1..Len(calls) : calls[i].exc # "ClientError" }

\* the pair of rule i read from catalog pl
RowPair(i, pl) ==
    [task |-> pl[Rules[i].keys[1]], shot |-> pl[Rules[i].keys[2]]]

\* all values delivered by the attribute pages / the product pages
ListedValues ==
    UNION { { svcAttrs[p][i] : i \in DOMAIN svcAttrs[p] } :
            p \in DOMAIN svcAttrs }

ListedProducts ==
    UNION { { svcProducts[p][i] : i \in DOMAIN svcProducts[p] } :
            p \in DOMAIN svcProducts }

\* the on-demand USD unit prices of a product
UnitPrices(rec) ==
    UNION { { float(rec.OnDemand[t][d]) : d \in DOMAIN rec.OnDemand[t] } :
            t \in DOMAIN rec.OnDemand }

\* n USD in price units
USD(n) ==
    n * Pow10(FracDigits)

\* ------------------------------------------------------------------------
\* Properties
\* ------------------------------------------------------------------------
\* C1: when estimate_cost has printed its report for counts >= 0, the
\* total on the 'Cost estimate' line is tasks * (task price returned by the
\* first get_price) + tasks * shots_per_task * (shot price returned by the
\* second get_price), unrounded; task 0.30 and shot 0.00019 with 10 tasks
\* of 10000 shots give 22.0.
C1_TotalIsFormula ==
    (pc = "done" /\ tasks >= 0 /\ shots_per_task >= 0) =>
        /\ output[7][2] = tasks * calls[1].ret[1].task
                          + tasks * shots_per_task * calls[2].ret[1].shot
        /\ output[5][2] = calls[1].ret[1].task
        /\ output[6][2] = calls[2].ret[1].shot
        /\ (/\ tasks = 10
            /\ shots_per_task = 10000
            /\ 10 * calls[1].ret[1].task = USD(3)
            /\ 100000 * calls[2].ret[1].shot = USD(19))
           => output[7][2] = USD(22)

C1_Witness ==
    /\ pc = "done"
    /\ device.arn = ARN_DWAVE
    /\ tasks = 10
    /\ shots_per_task = 10000
    /\ changes = 0
    /\ output[7][2] = USD(22)

\* C2 (as stated): an identifier with exactly one of ionq, rigetti, d-wave
\* and a catalog holding that row's two keys always yield that row's pair.
C2_Original ==
    \A c \in Resolved : \A i \in 2..4 :
        (Matching \cap (2..4) = {i} /\ KeysOf(i) \subseteq DOMAIN calls[c].price_list)
        => (calls[c].exc = "none"
            /\ calls[c].ret = << RowPair(i, calls[c].price_list) >>)

\* C2 (amended): as stated, provided that the identifier does not contain
\* 'simulator' or the catalog also holds Global-Simulators-Task.
C2_VendorRow ==
    \A c \in Resolved : \A i \in 2..4 :
        (/\ Matching \cap (2..4) = {i}
         /\ KeysOf(i) \subseteq DOMAIN calls[c].price_list
         /\ (1 \in Matching => KeysOf(1) \subseteq DOMAIN calls[c].price_list))
        => (calls[c].exc = "none"
            /\ calls[c].ret = << RowPair(i, calls[c].price_list) >>)

C2_Witness ==
    /\ device.arn = ARN_RIGETTI
    /\ Len(calls) = 2
    /\ calls[2].exc = "none"
    /\ calls[2].ret = << [task |-> calls[2].price_list[USW1_Task],
                          shot |-> calls[2].price_list[USW1_Task_Shot]] >>
    /\ calls[2].ret[1].shot # calls[2].price_list[USW2_Task_Shot]

\* C3: for an identifier whose only token is 'simulator' and a catalog
\* holding Global-Simulators-Task, get_price succeeds with that task price
\* and the estimate, taking the absent shot price as 0, is tasks * task
\* price.
C3_SimulatorResolves ==
    /\ \A c \in Resolved :
          (Matching = {1} /\ KeysOf(1) \subseteq DOMAIN calls[c].price_list)
          => (calls[c].exc = "none"
              /\ calls[c].ret # <<>>
              /\ calls[c].ret[1].task =
                     calls[c].price_list[Global_Simulators_Task])
    /\ (Matching = {1} /\ pc = "done")
          => price = tasks * price_per_task

C5_MissingKeyFails ==
    \A c \in Resolved : \A i \in Matching :
        ~ (KeysOf(i) \subseteq DOMAIN calls[c].price_list)
        => (calls[c].exc = "KeyError" /\ calls[c].ret = <<>>)

C5_Witness ==
    /\ device.arn = ARN_DWAVE
    /\ Len(calls) = 1
    /\ USW2_Task \in DOMAIN calls[1].price_list
    /\ USW2_Task_Shot \notin DOMAIN calls[1].price_list
    /\ calls[1].exc = "KeyError"
    /\ pc = "raised"

\* C6: with a negative tasks or shots_per_task, estimate_cost computes no
\* total and prints nothing.
C6_NegativeCountRejected ==
    (tasks < 0 \/ shots_per_task < 0) =>
        (pc \notin {"line244", "done"} /\ output = <<>>)

\* C7: no partial results: when the catalog fetch, the resolution or the
\* price lookup failed, nothing has been printed; lines are printed only
\* after both get_price calls returned and the total was computed.
C7_NoPartialReport ==
    /\ (exc # "none" \/ pc = "raised") => output = <<>>
    /\ (\E c \in 1..Len(calls) : calls[c].exc # "none") => output = <<>>
    /\ output # <<>> =>
          /\ Len(calls) = 2
          /\ calls[1].exc = "none" /\ calls[2].exc = "none"
          /\ pc \in {"line244", "done"}
          /\ price = tasks * calls[1].ret[1].task
                    + tasks * shots_per_task * calls[2].ret[1].shot

C7_Witness ==
    /\ pc = "raised"
    /\ Len(calls) = 2
    /\ calls[1].exc = "none"
    /\ calls[2].exc = "ClientError"
    /\ output = <<>>

\* C8: every key of a catalog returned by get_price_list appeared in the
\* attribute listing, ends in exactly 'Task' or 'Shot', and is the
\* usagetype of a listed product; its value is an on-demand USD unit price
\* of such a product.
C8_CatalogKeys ==
    \A n \in 1..Len(fetched) : \A k \in DOMAIN fetched[n] :
        /\ k \in ListedValues
        /\ Len(k) >= 4
        /\ SubSeq(k, Len(k) - 3, Len(k)) \in {Task, Shot}
        /\ \E rec \in ListedProducts :
              rec.usagetype = k /\ fetched[n][k] \in UnitPrices(rec)

C8_Witness ==
    /\ pc = "returned"
    /\ USE1_Task \in DOMAIN fetched[1]
    /\ USE1_Tasks \in ListedValues
    /\ \E rec \in ListedProducts : rec.usagetype = USE1_Tasks
    /\ USE1_Tasks \notin DOMAIN fetched[1]

\* C9 (as stated): an identifier with more than one token makes get_price
\* return, without error, the pair of the last matching rule.
C9_Original ==
    \A c \in Resolved :
        Cardinality(Matching) > 1 =>
            (calls[c].exc = "none"
             /\ calls[c].ret = << RowPair(LastMatching, calls[c].price_list) >>)

\* C9 (amended): as stated, provided that the catalog is fetched and holds
\* the keys of every matching rule (a key of an earlier matching rule that
\* is missing raises KeyError).
C9_LastRuleWins ==
    \A c \in Resolved :
        (/\ Cardinality(Matching) > 1
         /\ \A i \in Matching : KeysOf(i) \subseteq DOMAIN calls[c].price_list)
        => (calls[c].exc = "none"
            /\ calls[c].ret = << RowPair(LastMatching, calls[c].price_list) >>)

C9_Witness ==
    /\ device.arn = ARN_DWAVE_IONQ
    /\ Len(calls) >= 1
    /\ calls[1].exc = "none"
    /\ calls[1].ret = << [task |-> calls[1].price_list[USW2_Task],
                          shot |-> calls[1].price_list[USW2_Task_Shot]] >>
    /\ calls[1].ret[1].shot # calls[1].price_list[USE1_Task_Shot]

\* C10: the task price and the shot price used in the total of one
\* estimate_cost call are the pair of one single fetched catalog.
C10_OneSnapshot ==
    pc \in {"line242", "line244", "done"} =>
        \E n \in 1..Len(fetched) :
            /\ fetched[n][Rules[LastMatching].keys[1]] = price_per_task
            /\ fetched[n][Rules[LastMatching].keys[2]] = price_per_shot
====
